---- MODULE Spec2Model ----
(***************************************************************************)
(* Model of the LISTEN.moe metadata gateway client of petal:               *)
(*   src/src/meta/controller.rs  Meta (start / pause / stop / set_station / *)
(*                               drop), the worker                         *)
(*   src/src/meta/gateway.rs     run_meta_loop, run_once                   *)
(*   src/src/station.rs          Station                                   *)
(*   src/src/meta/time_parse.rs  parse_rfc3339_system_time                 *)
(*   src/src/meta/schedule.rs    pick_track_for_playback,                  *)
(*                               schedule_ui_switch,                       *)
(*                               schedule_next_from_history                *)
(* Threads: the controller (GUI thread), one worker thread per             *)
(* start_inner, one timer thread per schedule_ui_switch.  Shared: the      *)
(* control channels, the atomic ui_sched_id and lag_ms, the consumer       *)
(* channel.  Time is an integer clock; an Option is a set with at most one *)
(* element ({} is None).                                                   *)
(***************************************************************************)
EXTENDS Integers, Sequences, FiniteSets

\* ------------------------------------------------------------------ bounds
MaxWorkers == 2      \* worker threads spawned over a run
MaxOps == 3          \* calls of the Meta API over a run
MaxAttempts == 2     \* connection attempts of one worker
MaxUpdates == 1      \* valid TRACK_UPDATE dispatches over a run of Spec
MaxTime == 1         \* the clock of Spec and SpecSession runs 0..MaxTime
MaxLag == 1          \* lag_ms takes the values 0..MaxLag
MaxSessionUpdates == 2  \* TRACK_UPDATE dispatches of the session of SpecSession
MaxRecorded == 34    \* TRACK_UPDATE dispatches of the session of SpecHistory
MaxHist == 3         \* longest History drawn in SpecResume
MaxPickTime == 2     \* clock and start times of SpecResume: 0..MaxPickTime
MaxDur == 2          \* durations of SpecResume: 0..MaxDur

\* ------------------------------------------------------- program constants
HistoryCap == 32
OP_HELLO == 0
OP_DISPATCH == 1
OP_HEARTBEAT_ACK == 10
\* thread::sleep of run_meta_loop before it retries, in seconds: when the
\* channel was empty, and when it held a message other than Stop.
RetryDelay == 5
ControlDelay == 1

\* SystemTime represents TimeMin..TimeMax.  A parsed start_time (a year up
\* to 9999) plus a duration (u32 seconds) is always representable; a start
\* or the clock plus or minus a lag (u64 milliseconds) need not be.
TimeMax == MaxPickTime + MaxDur + 1
TimeMin == 0 - TimeMax
\* A lag so large that now - lag and start + lag are not representable.
LagHuge == 2 * TimeMax + 1

Workers == 1..MaxWorkers
\* enum Station
Stations == {"Jpop", "Kpop"}
Lags == 0..MaxLag
Tracks == [start : 0..MaxTime, dur : {0, 1}]

VARIABLES
    ctl,      \* Inner.state and Inner.station of Meta, and where the
              \* controller thread is
    chan,     \* chan[w]: the control channel of worker w
    workers,  \* workers[w]: the worker thread w and its session
    gen,      \* ui_sched_id
    lag,      \* lag_ms
    now,      \* SystemTime::now()
    timers,   \* the threads spawned by schedule_ui_switch
    out,      \* the consumer channel: what was sent, in order
    count,    \* how much of each bound is used
    last      \* the last call of the Meta API and the state it found

vars == <<ctl, chan, workers, gen, lag, now, timers, out, count, last>>

\* ----------------------------------------------------------------- helpers
Some(x) == {x}
None == {}
The(o) == CHOOSE x \in o : TRUE

SetMax(S) == CHOOSE x \in S : \A y \in S : y <= x
SetMin(S) == CHOOSE x \in S : \A y \in S : x <= y

\* SystemTime::checked_sub / checked_add: None when not representable.
checked_sub(t, d) == IF t - d >= TimeMin THEN Some(t - d) ELSE None
checked_add(t, d) == IF t + d <= TimeMax THEN Some(t + d) ELSE None

\* mpsc::Receiver::try_recv: queued messages first, Disconnected only when
\* the queue is empty and every Sender is dropped.
try_recv(c) ==
    IF c.q # <<>> THEN Head(c.q)
    ELSE IF c.tx THEN "Empty" ELSE "Disconnected"

recv_rest(c) == IF c.q # <<>> THEN [c EXCEPT !.q = Tail(c.q)] ELSE c

\* mpsc::Sender::send: fails (and the result is dropped) once the receiver,
\* which the worker thread owns, is gone.
tx_send(c, w, m) ==
    IF workers[w].pc = "done" THEN c ELSE [c EXCEPT !.q = Append(c.q, m)]


\* ------------------------------------------------------------- schedule.rs
\* Iterator::rev().find(p): the last entry of h that satisfies p, if any.
rev_find(h, P(_)) ==
    LET idx == {i \in 1..Len(h) : P(h[i])}
    IN  IF idx = {} THEN None ELSE Some(h[SetMax(idx)])

\* in_window with the end of the window taken as part of it.
in_window_closed(t, playback_now) ==
    t.dur # 0 /\ playback_now >= t.start /\ playback_now <= t.start + t.dur

\* The closure of the first find: a known duration and a [start, end) window
\* around playback_now.
in_window(t, playback_now) ==
    IF t.dur = 0 THEN FALSE
    ELSE LET end == checked_add(t.start, t.dur)
         IN  IF end = None THEN FALSE
             ELSE playback_now >= t.start /\ playback_now < The(end)

pick_track_for_playback(history, lag_ms, clock) ==
    LET pn == checked_sub(clock, lag_ms)
    IN  IF pn = None THEN None
        ELSE LET playback_now == The(pn)
                 WindowHit(t) == in_window(t, playback_now)
                 StartedBefore(t) == playback_now >= t.start
                 hit == rev_find(history, WindowHit)
             IN  IF hit # None THEN hit
                 ELSE rev_find(history, StartedBefore)

\* generation_matches that lets an older id pass.
generation_matches_stale(loaded, my_id) == loaded >= my_id

\* The load of ui_sched_id and its comparison in the timer thread.
generation_matches(loaded, my_id) == loaded = my_id

\* schedule_ui_switch: the thread it spawns, asleep until target (no sleep at
\* all when start + lag is not representable).  woke: what the thread loads
\* from ui_sched_id when it wakes (-1 before).
schedule_ui_switch(w, track, lag_ms, my_id) ==
    [id |-> my_id, track |-> track, target |-> checked_add(track.start, lag_ms),
     st |-> "sleep", w |-> w, woke |-> -1]

\* earliest_future with max_by_key for min_by_key.
latest_future(history, playback_now) ==
    LET fut == {i \in 1..Len(history) : playback_now < history[i].start}
    IN  IF fut = {} THEN None
        ELSE LET most == SetMax({history[i].start : i \in fut})
             IN  Some(history[SetMax({i \in fut : history[i].start = most})])

\* filter(playback_now < start).min_by_key(start): the first of the entries
\* with the least start among those after playback_now.
earliest_future(history, playback_now) ==
    LET fut == {i \in 1..Len(history) : playback_now < history[i].start}
    IN  IF fut = {} THEN None
        ELSE LET least == SetMin({history[i].start : i \in fut})
             IN  Some(history[SetMin({i \in fut : history[i].start = least})])

\* schedule_next_from_history: the timers it spawns (none or one), computed
\* at the clock value of its own SystemTime::now().
schedule_next_from_history(w, history, lag_ms, clock) ==
    LET pn == checked_sub(clock, lag_ms)
    IN  IF pn = None THEN {}
        ELSE LET next == earliest_future(history, The(pn))
             IN  IF next = None THEN {}
                 ELSE {schedule_ui_switch(w, The(next), lag_ms, gen + 1)}

\* -------------------------------------------------------------- gateway.rs
\* history_record that evicts one entry too late.
history_record_late(history, info) ==
    Append(IF Len(history) > HistoryCap THEN Tail(history) ELSE history, info)

\* history.pop_front() when full, then push_back.
history_record(history, info) ==
    Append(IF Len(history) = HistoryCap THEN Tail(history) ELSE history, info)

FreshWorker ==
    [pc |-> "none", station |-> "Jpop", paused |-> FALSE, history |-> <<>>,
     hb |-> FALSE, attempts |-> 0, lagv |-> 0,
     \* what follows records what happened, and decides nothing:
     recorded |-> <<>>,    \* every track recorded in this session, in order
     stopSeen |-> FALSE,   \* the session loop received Control::Stop
     retried |-> FALSE,    \* a connection attempt was made after that
     held |-> FALSE,       \* the session loop received Pause, and no poll
                           \* received Resume since
     armed |-> -1,         \* timers spawned by the last Resume (-1: none yet)
     due |-> 0,            \* id of the switch of the last TRACK_UPDATE, when
                           \* its start + lag was not in the future (else 0)
     beat |-> FALSE,       \* a heartbeat frame was sent in this session
     beatErr |-> FALSE,    \* a send of a heartbeat frame failed in this
                           \* session
     waited |-> 0,         \* seconds of the thread::sleep since run_once last
                           \* returned (0: none), until the next connect
     why |-> "none",       \* what made run_once return at a poll of the
                           \* channel, "Stop" or "Disconnected", until
                           \* run_meta_loop has polled again
     pn |-> {}]            \* playback_now of the pick of the Resume being
                           \* handled, when there is one (else the empty set)

\* session_over with the History of the session kept for the next one.
session_over_keeps_history(wk) ==
    [wk EXCEPT !.pc = "retry", !.hb = FALSE, !.paused = FALSE,
               !.lagv = 0, !.recorded = <<>>, !.due = 0,
               !.beat = FALSE, !.beatErr = FALSE]

\* run_once returns: its locals are gone.
session_over(wk) ==
    [wk EXCEPT !.pc = "retry", !.hb = FALSE, !.paused = FALSE,
               !.history = <<>>, !.lagv = 0, !.recorded = <<>>, !.due = 0,
               !.beat = FALSE, !.beatErr = FALSE]

\* What the consumer receives, and where it came from: the worker, "timer"
\* or "resume", and for a timer its my_id and the ui_sched_id it loaded.
Emission(w, track, src, id, woke) ==
    [track |-> track, w |-> w, src |-> src, id |-> id, woke |-> woke]

Init ==
    /\ ctl = [state |-> "Stopped", cur |-> 0, pc |-> "idle",
              station |-> "Jpop", arg |-> "Jpop"]
    /\ chan = [w \in Workers |-> [q |-> <<>>, tx |-> FALSE]]
    /\ workers = [w \in Workers |-> FreshWorker]
    /\ gen = 0
    /\ lag = 0
    /\ now = 0
    /\ timers = {}
    /\ out = <<>>
    /\ count = [ops |-> 0, spawned |-> 0, updates |-> 0]
    /\ last = [op |-> "new", was |-> "Stopped"]


\* ----------------------------------------------------------- controller.rs
Used(op) == /\ ctl.pc = "idle"
            /\ count.ops < MaxOps
            /\ last' = [op |-> op, was |-> ctl.state]

\* Meta::start_inner on Stopped: a new channel, a new worker thread on its
\* receiver, the sender kept in State::Running.
start_inner ==
    LET w == count.spawned + 1
    IN  /\ count.spawned < MaxWorkers
        /\ ctl' = [ctl EXCEPT !.state = "Running", !.cur = w]
        /\ chan' = [chan EXCEPT ![w] = [q |-> <<>>, tx |-> TRUE]]
        /\ workers' = [workers EXCEPT
               ![w] = [FreshWorker EXCEPT !.pc = "loop", !.station = ctl.station]]
        /\ count' = [count EXCEPT !.ops = @ + 1, !.spawned = w]

\* Start that returns at once when Running.
StartSilent ==
    /\ Used("start")
    /\ IF ctl.state = "Running"
       THEN /\ count' = [count EXCEPT !.ops = @ + 1]
            /\ UNCHANGED <<ctl, chan, workers>>
       ELSE start_inner
    /\ UNCHANGED <<gen, lag, now, timers, out>>

\* Meta::start: Resume to the running worker, or start_inner.
Start ==
    /\ Used("start")
    /\ IF ctl.state = "Running"
       THEN /\ chan' = [chan EXCEPT ![ctl.cur] = tx_send(@, ctl.cur, "Resume")]
            /\ count' = [count EXCEPT !.ops = @ + 1]
            /\ UNCHANGED <<ctl, workers>>
       ELSE start_inner
    /\ UNCHANGED <<gen, lag, now, timers, out>>

\* Pause that sends the wrong Control.
PauseSendsResume ==
    /\ Used("pause")
    /\ IF ctl.state = "Running"
       THEN chan' = [chan EXCEPT ![ctl.cur] = tx_send(@, ctl.cur, "Resume")]
       ELSE UNCHANGED chan
    /\ count' = [count EXCEPT !.ops = @ + 1]
    /\ UNCHANGED <<ctl, workers, gen, lag, now, timers, out>>

\* Meta::pause
Pause ==
    /\ Used("pause")
    /\ IF ctl.state = "Running"
       THEN chan' = [chan EXCEPT ![ctl.cur] = tx_send(@, ctl.cur, "Pause")]
       ELSE UNCHANGED chan
    /\ count' = [count EXCEPT !.ops = @ + 1]
    /\ UNCHANGED <<ctl, workers, gen, lag, now, timers, out>>

\* Meta::stop, first statement of stop_inner: tx.send(Control::Stop) when
\* Running.  On Stopped the whole of stop_inner happens here.
StopSend ==
    /\ Used("stop")
    /\ IF ctl.state = "Running"
       THEN /\ chan' = [chan EXCEPT ![ctl.cur] = tx_send(@, ctl.cur, "Stop")]
            /\ ctl' = [ctl EXCEPT !.pc = "stop_sent"]
       ELSE UNCHANGED <<chan, ctl>>
    /\ count' = [count EXCEPT !.ops = @ + 1]
    /\ UNCHANGED <<workers, gen, lag, now, timers, out>>

\* StopDrop without the assignment of State::Stopped.
StopKeepsRunning ==
    /\ ctl.pc = "stop_sent"
    /\ ctl' = [ctl EXCEPT !.pc = "idle"]
    /\ UNCHANGED <<chan, workers, gen, lag, now, timers, out, count, last>>

\* Second statement of stop_inner: inner.state = State::Stopped drops the
\* only Sender of the channel.
StopDrop ==
    /\ ctl.pc = "stop_sent"
    /\ ctl' = [ctl EXCEPT !.state = "Stopped", !.pc = "idle"]
    /\ chan' = [chan EXCEPT ![ctl.cur].tx = FALSE]
    /\ UNCHANGED <<workers, gen, lag, now, timers, out, count, last>>

\* Meta::set_station up to the first statement of stop_inner: on Running
\* tx.send(Control::Stop); on Stopped all of set_station, which then only
\* stores the station.
SetStationSend(s) ==
    /\ Used("set_station")
    /\ IF ctl.state = "Running"
       THEN /\ count.spawned < MaxWorkers
            /\ chan' = [chan EXCEPT ![ctl.cur] = tx_send(@, ctl.cur, "Stop")]
            /\ ctl' = [ctl EXCEPT !.pc = "swap_sent", !.arg = s]
       ELSE /\ ctl' = [ctl EXCEPT !.station = s, !.arg = s]
            /\ UNCHANGED chan
    /\ count' = [count EXCEPT !.ops = @ + 1]
    /\ UNCHANGED <<workers, gen, lag, now, timers, out>>

\* SetStationSwap that starts the new worker before the station is stored.
SetStationStartsFirst ==
    LET w == count.spawned + 1
    IN  /\ ctl.pc = "swap_sent"
        /\ ctl' = [ctl EXCEPT !.state = "Running", !.cur = w, !.pc = "idle",
                              !.station = ctl.arg]
        /\ chan' = [chan EXCEPT ![ctl.cur].tx = FALSE,
                                ![w] = [q |-> <<>>, tx |-> TRUE]]
        /\ workers' = [workers EXCEPT
               ![w] = [FreshWorker EXCEPT !.pc = "loop", !.station = ctl.station]]
        /\ count' = [count EXCEPT !.spawned = w]
        /\ UNCHANGED <<gen, lag, now, timers, out, last>>

\* Meta::set_station on Running, the rest: inner.state = State::Stopped drops
\* the Sender, inner.station = station, then start_inner: a new channel and
\* a new worker thread for the new station.
SetStationSwap ==
    LET w == count.spawned + 1
    IN  /\ ctl.pc = "swap_sent"
        /\ ctl' = [ctl EXCEPT !.state = "Running", !.cur = w, !.pc = "idle",
                              !.station = ctl.arg]
        /\ chan' = [chan EXCEPT ![ctl.cur].tx = FALSE,
                                ![w] = [q |-> <<>>, tx |-> TRUE]]
        /\ workers' = [workers EXCEPT
               ![w] = [FreshWorker EXCEPT !.pc = "loop", !.station = ctl.arg]]
        /\ count' = [count EXCEPT !.spawned = w]
        /\ UNCHANGED <<gen, lag, now, timers, out, last>>

\* Drop for Meta, first statement of stop_inner; on Stopped all of drop.
\* No method is called on a dropped Meta.
Drop ==
    /\ Used("drop")
    /\ IF ctl.state = "Running"
       THEN /\ chan' = [chan EXCEPT ![ctl.cur] = tx_send(@, ctl.cur, "Stop")]
            /\ ctl' = [ctl EXCEPT !.pc = "drop_sent"]
       ELSE /\ ctl' = [ctl EXCEPT !.pc = "gone"]
            /\ UNCHANGED chan
    /\ count' = [count EXCEPT !.ops = @ + 1]
    /\ UNCHANGED <<workers, gen, lag, now, timers, out>>

\* Drop for Meta, the rest: inner.state = State::Stopped, and Inner is gone.
DropEnd ==
    /\ ctl.pc = "drop_sent"
    /\ ctl' = [ctl EXCEPT !.state = "Stopped", !.pc = "gone"]
    /\ chan' = [chan EXCEPT ![ctl.cur].tx = FALSE]
    /\ UNCHANGED <<workers, gen, lag, now, timers, out, count, last>>

\* ------------------------------------------------------------ the worker
\* Stopping without the Disconnected arm.
StoppingOnStopOnly(m) == m = "Stop"

Stopping(m) == m \in {"Stop", "Disconnected"}

\* run_meta_loop, top of the loop: one try_recv; Pause and Resume are
\* consumed and dropped.
LoopTop(w) ==
    /\ workers[w].pc = "loop"
    /\ LET m == try_recv(chan[w])
       IN  workers' = [workers EXCEPT
               ![w].pc = IF Stopping(m) THEN "done" ELSE "once",
               ![w].held = IF m = "Resume" THEN FALSE ELSE @]
    /\ chan' = [chan EXCEPT ![w] = recv_rest(@)]
    /\ UNCHANGED <<ctl, gen, lag, now, timers, out, count, last>>

\* run_once, first statement: one more try_recv; return Ok(()) on Stop.
OnceTop(w) ==
    /\ workers[w].pc = "once"
    /\ LET m == try_recv(chan[w])
       IN  workers' = [workers EXCEPT
               ![w].pc = IF Stopping(m) THEN "retry" ELSE "connect",
               ![w].why = IF Stopping(m) THEN m ELSE @,
               ![w].held = IF m = "Resume" THEN FALSE ELSE @]
    /\ chan' = [chan EXCEPT ![w] = recv_rest(@)]
    /\ UNCHANGED <<ctl, gen, lag, now, timers, out, count, last>>

\* connect(url)? and the read timeout: a connection attempt, which fails or
\* gives a socket.  attempts counts them up to MaxAttempts and stays there.
Connect(w, ok) ==
    /\ workers[w].pc = "connect"
    /\ workers' = [workers EXCEPT
           ![w].pc = IF ok THEN "hello" ELSE "retry",
           ![w].attempts = IF @ < MaxAttempts THEN @ + 1 ELSE @,
           ![w].waited = 0,
           ![w].retried = workers[w].stopSeen]
    /\ UNCHANGED <<ctl, chan, gen, lag, now, timers, out, count, last>>

HelloOutcomes == {"hello", "other", "error"}

\* read_hello_heartbeat(&mut ws)?, the heartbeat sent after it whatever it
\* returned, and the session's locals.  "error": a read error, a read
\* timeout included, or an envelope that does not decode.  Here the send
\* of that heartbeat succeeds; HelloRead has both outcomes of it.
Hello(w, outcome) ==
    /\ workers[w].pc = "hello"
    /\ workers' = [workers EXCEPT
           ![w].pc = IF outcome = "error" THEN "retry" ELSE "poll",
           ![w].hb = (outcome = "hello"),
           ![w].beat = (outcome # "error")]
    /\ UNCHANGED <<ctl, chan, gen, lag, now, timers, out, count, last>>

\* What the ws.read() of read_hello_heartbeat gives: a message (text or not,
\* an envelope that decodes or not, its op, and for d a heartbeat field that
\* is an integer or not), or ConnectionClosed, or a read timeout, or another
\* error.  A field that is never looked at holds a fixed value.
NoFirst == [res |-> "closed", text |-> FALSE, json |-> FALSE, op |-> OP_HELLO,
            heartbeat |-> FALSE]
FirstReads ==
    {[NoFirst EXCEPT !.res = r] : r \in {"closed", "timeout", "error"}}
    \cup {[NoFirst EXCEPT !.res = "msg", !.text = t] : t \in BOOLEAN}
    \cup {[NoFirst EXCEPT !.res = "msg", !.text = TRUE, !.json = TRUE,
                          !.op = o, !.heartbeat = h] :
             o \in {OP_HELLO, OP_DISPATCH, OP_HEARTBEAT_ACK}, h \in BOOLEAN}

\* read_hello_heartbeat: "hello" for Ok(Some(interval)), "other" for
\* Ok(None), "error" for Err.
read_hello_heartbeat(r) ==
    IF r.res = "msg"
    THEN IF r.text
         THEN IF ~r.json THEN "error"
              ELSE IF r.op = OP_HELLO
                   THEN IF r.heartbeat THEN "hello" ELSE "error"
                   ELSE "other"
         ELSE "other"
    ELSE IF r.res = "closed" THEN "other"
    ELSE "error"

\* read_hello_heartbeat(&mut ws)? on the read r, then, unless it returned
\* Err, let _ = ws.send(heartbeat), which succeeds (sent) or fails with its
\* error dropped, and the session's locals.
HelloRead(w, r, sent) ==
    /\ workers[w].pc = "hello"
    /\ LET outcome == read_hello_heartbeat(r)
       IN  workers' = [workers EXCEPT
               ![w].pc = IF outcome = "error" THEN "retry" ELSE "poll",
               ![w].hb = (outcome = "hello"),
               ![w].beat = (outcome # "error" /\ sent),
               ![w].beatErr = (outcome # "error" /\ ~sent)]
    /\ UNCHANGED <<ctl, chan, gen, lag, now, timers, out, count, last>>

\* The heartbeat of the session loop when the interval has elapsed and the
\* send succeeds; SessionEnd has the send that fails.
Heartbeat(w) ==
    /\ workers[w].pc = "io"
    /\ workers[w].hb
    /\ workers' = [workers EXCEPT ![w].beat = TRUE]
    /\ UNCHANGED <<ctl, chan, gen, lag, now, timers, out, count, last>>


\* The session loop, "Check for control messages first": Stop or a
\* disconnected channel.
PollStop(w) ==
    /\ workers[w].pc = "poll"
    /\ Stopping(try_recv(chan[w]))
    /\ gen' = gen + 1
    /\ workers' = [workers EXCEPT
           ![w] = [session_over(@) EXCEPT
                      !.held = FALSE,
                      !.why = try_recv(chan[w]),
                      !.stopSeen = @ \/ try_recv(chan[w]) = "Stop"]]
    /\ chan' = [chan EXCEPT ![w] = recv_rest(@)]
    /\ UNCHANGED <<ctl, lag, now, timers, out, count, last>>

\* Control::Pause
PollPause(w) ==
    /\ workers[w].pc = "poll"
    /\ try_recv(chan[w]) = "Pause"
    /\ gen' = gen + 1
    /\ workers' = [workers EXCEPT
           ![w].pc = "io", ![w].paused = TRUE, ![w].held = TRUE]
    /\ chan' = [chan EXCEPT ![w] = recv_rest(@)]
    /\ UNCHANGED <<ctl, lag, now, timers, out, count, last>>

\* Control::Resume, up to the send of the pick: the flag, the counter, the
\* load of lag_ms, pick_track_for_playback and sender.send(correct).
PollResume(w) ==
    /\ workers[w].pc = "poll"
    /\ try_recv(chan[w]) = "Resume"
    /\ gen' = gen + 1
    /\ workers' = [workers EXCEPT
           ![w].pc = "resync", ![w].paused = FALSE, ![w].held = FALSE,
           ![w].lagv = lag, ![w].armed = -1, ![w].due = 0,
           ![w].pn = checked_sub(now, lag)]
    /\ LET correct == pick_track_for_playback(workers[w].history, lag, now)
       IN  out' = IF correct = None THEN out
                  ELSE Append(out, Emission(w, The(correct), "resume", 0, 0))
    /\ chan' = [chan EXCEPT ![w] = recv_rest(@)]
    /\ UNCHANGED <<ctl, lag, now, timers, count, last>>

\* Control::Resume, the rest: schedule_next_from_history with the lag loaded
\* before, at a SystemTime::now() of its own.
SchedNext(w) ==
    /\ workers[w].pc = "resync"
    /\ LET new == schedule_next_from_history(w, workers[w].history, workers[w].lagv, now)
       IN  /\ timers' = timers \cup new
           /\ gen' = IF new = {} THEN gen ELSE gen + 1
           /\ workers' = [workers EXCEPT
                  ![w].pc = "io", ![w].lagv = 0, ![w].armed = Cardinality(new),
                  ![w].pn = None]
    /\ UNCHANGED <<ctl, chan, lag, now, out, count, last>>

\* try_recv gave Empty.
PollEmpty(w) ==
    /\ workers[w].pc = "poll"
    /\ try_recv(chan[w]) = "Empty"
    /\ workers' = [workers EXCEPT ![w].pc = "io"]
    /\ UNCHANGED <<ctl, chan, gen, lag, now, timers, out, count, last>>

EndCauses(w) ==
    {"ConnectionClosed", "read error"}
        \cup (IF workers[w].hb THEN {"heartbeat send error"} ELSE {})

\* The session ends from the heartbeat or the read: break (run_once returns
\* Ok) on a failed heartbeat send or a closed connection, Err on any other
\* read error that is no timeout.
SessionEnd(w, cause) ==
    /\ workers[w].pc = "io"
    /\ cause \in EndCauses(w)
    /\ workers' = [workers EXCEPT ![w] = session_over(@)]
    /\ UNCHANGED <<ctl, chan, gen, lag, now, timers, out, count, last>>

SkipKinds ==
    {"timeout", "not text", "malformed envelope", "heartbeat ack",
     "other op", "malformed payload", "bad startTime"}

\* A read that changes nothing: continue, or a match arm without effect.
ReadSkip(w, kind) ==
    /\ workers[w].pc = "io"
    /\ kind \in SkipKinds
    /\ workers' = [workers EXCEPT ![w].pc = "poll"]
    /\ UNCHANGED <<ctl, chan, gen, lag, now, timers, out, count, last>>

\* ReadTrack without the test of paused.
ReadTrackWhilePaused(w, info) ==
    /\ workers[w].pc = "io"
    /\ LET history == history_record(workers[w].history, info)
           my_id == gen + 1
       IN  /\ workers' = [workers EXCEPT
                  ![w].pc = "poll",
                  ![w].history = history,
                  ![w].recorded = Append(@, info)]
           /\ gen' = my_id
           /\ timers' = timers \cup
                  {schedule_ui_switch(w, history[Len(history)], lag, my_id)}
    /\ count' = [count EXCEPT !.updates = @ + 1]
    /\ UNCHANGED <<ctl, chan, lag, now, out, last>>

\* ReadTrack that schedules under the current value of ui_sched_id instead
\* of a new one.
ReadTrackReusesId(w, info) ==
    /\ workers[w].pc = "io"
    /\ LET history == history_record(workers[w].history, info)
       IN  /\ workers' = [workers EXCEPT
                  ![w].pc = "poll",
                  ![w].history = history,
                  ![w].recorded = Append(@, info)]
           /\ IF ~workers[w].paused
              THEN /\ gen' = gen
                   /\ timers' = timers \cup
                          {schedule_ui_switch(w, history[Len(history)], lag, gen)}
              ELSE UNCHANGED <<gen, timers>>
    /\ count' = [count EXCEPT !.updates = @ + 1]
    /\ UNCHANGED <<ctl, chan, lag, now, out, last>>

\* (OP_DISPATCH, Some(EVENT_TRACK_UPDATE)) with a payload parse_track_info
\* accepts: record it, and unless paused take a new id and schedule it.
ReadTrack(w, info) ==
    /\ workers[w].pc = "io"
    /\ LET history == history_record(workers[w].history, info)
           my_id == gen + 1
           started == info.start + lag <= now /\ info.start + lag <= TimeMax
       IN  /\ workers' = [workers EXCEPT
                  ![w].pc = "poll",
                  ![w].history = history,
                  ![w].recorded = Append(@, info),
                  ![w].due = IF ~workers[w].paused /\ started THEN my_id ELSE 0]
           /\ IF ~workers[w].paused
              THEN /\ gen' = my_id
                   /\ timers' = timers \cup
                          {schedule_ui_switch(w, history[Len(history)], lag, my_id)}
              ELSE UNCHANGED <<gen, timers>>
    /\ count' = [count EXCEPT !.updates = @ + 1]
    /\ UNCHANGED <<ctl, chan, lag, now, out, last>>

\* Retry that gives up when run_once has returned and nothing is queued.
RetryGivesUp(w) ==
    /\ workers[w].pc = "retry"
    /\ LET m == try_recv(chan[w])
       IN  workers' = [workers EXCEPT
               ![w].pc = IF Stopping(m) \/ m = "Empty" THEN "done" ELSE "sleep",
               ![w].waited = IF Stopping(m) \/ m = "Empty" THEN 0 ELSE ControlDelay,
               ![w].why = "none",
               ![w].held = IF m = "Resume" THEN FALSE ELSE @]
    /\ chan' = [chan EXCEPT ![w] = recv_rest(@)]
    /\ UNCHANGED <<ctl, gen, lag, now, timers, out, count, last>>

\* Retry without the thread::sleep: straight back to the top of the loop.
RetryNoSleep(w) ==
    /\ workers[w].pc = "retry"
    /\ LET m == try_recv(chan[w])
       IN  workers' = [workers EXCEPT
               ![w].pc = IF Stopping(m) THEN "done" ELSE "loop",
               ![w].waited = 0,
               ![w].why = "none",
               ![w].held = IF m = "Resume" THEN FALSE ELSE @]
    /\ chan' = [chan EXCEPT ![w] = recv_rest(@)]
    /\ UNCHANGED <<ctl, gen, lag, now, timers, out, count, last>>

\* run_meta_loop after run_once returned, Ok or Err alike: try_recv, return
\* on Stop, else thread::sleep (5 s on Empty, 1 s on Pause or Resume).
Retry(w) ==
    /\ workers[w].pc = "retry"
    /\ LET m == try_recv(chan[w])
       IN  workers' = [workers EXCEPT
               ![w].pc = IF Stopping(m) THEN "done" ELSE "sleep",
               ![w].waited = IF Stopping(m) THEN 0
                             ELSE IF m = "Empty" THEN RetryDelay
                             ELSE ControlDelay,
               ![w].why = "none",
               ![w].held = IF m = "Resume" THEN FALSE ELSE @]
    /\ chan' = [chan EXCEPT ![w] = recv_rest(@)]
    /\ UNCHANGED <<ctl, gen, lag, now, timers, out, count, last>>

\* thread::sleep returns: back to the top of the loop.
Wake(w) ==
    /\ workers[w].pc = "sleep"
    /\ workers' = [workers EXCEPT ![w].pc = "loop"]
    /\ UNCHANGED <<ctl, chan, gen, lag, now, timers, out, count, last>>

\* ------------------------------------------------------- the timer threads
\* Awake with the target computed again from the lag_ms of the moment.
AwakeByCurrentLag(t) == t.track.start + lag <= now

\* The thread does not sleep, or its sleep is over: there is no target, or
\* target.duration_since(now) is an Err, or the wait has passed.
Awake(t) == IF t.target = None THEN TRUE ELSE The(t.target) <= now

\* thread::sleep(wait) is over (or there was none): load ui_sched_id and
\* compare; the thread ends when it differs.
TimerWake(t) ==
    /\ t.st = "sleep"
    /\ Awake(t)
    /\ timers' = IF generation_matches(gen, t.id)
                 THEN (timers \ {t}) \cup {[t EXCEPT !.st = "send", !.woke = gen]}
                 ELSE timers \ {t}
    /\ UNCHANGED <<ctl, chan, workers, gen, lag, now, out, count, last>>

\* sender.send(track)
TimerSend(t) ==
    /\ t.st = "send"
    /\ out' = Append(out, Emission(t.w, t.track, "timer", t.id, t.woke))
    /\ timers' = timers \ {t}
    /\ UNCHANGED <<ctl, chan, workers, gen, lag, now, count, last>>

\* --------------------------------------------------------- the environment
Tick ==
    /\ now' = now + 1
    /\ UNCHANGED <<ctl, chan, workers, gen, lag, timers, out, count, last>>

\* The audio engine stores a new lag_ms.
SetLag(l) ==
    /\ l # lag
    /\ lag' = l
    /\ UNCHANGED <<ctl, chan, workers, gen, now, timers, out, count, last>>

WorkerStep(w) ==
    \/ LoopTop(w)
    \/ OnceTop(w)
    \/ \E ok \in BOOLEAN : Connect(w, ok)
    \/ \E o \in HelloOutcomes : Hello(w, o)
    \/ PollStop(w)
    \/ PollPause(w)
    \/ PollResume(w)
    \/ SchedNext(w)
    \/ PollEmpty(w)
    \/ \E c \in EndCauses(w) : SessionEnd(w, c)
    \/ \E k \in SkipKinds : ReadSkip(w, k)
    \/ Retry(w)
    \/ Wake(w)

Next ==
    \/ Start
    \/ Pause
    \/ StopSend
    \/ StopDrop
    \/ \E w \in Workers : WorkerStep(w)
    \/ \E w \in Workers, info \in Tracks :
           count.updates < MaxUpdates /\ ReadTrack(w, info)
    \/ \E t \in timers : TimerWake(t)
    \/ \E t \in timers : TimerSend(t)
    \/ now < MaxTime /\ Tick
    \/ \E l \in Lags : SetLag(l)

Spec == Init /\ [][Next]_vars

\* ------------------------------------- the whole of Meta, the clock at rest
\* Every method of Meta and its Drop, the workers and the timers, while the
\* clock and lag_ms stay as they are.
NextStation ==
    \/ Start
    \/ Pause
    \/ StopSend
    \/ StopDrop
    \/ \E s \in Stations : SetStationSend(s)
    \/ SetStationSwap
    \/ Drop
    \/ DropEnd
    \/ \E w \in Workers : WorkerStep(w)
    \/ \E w \in Workers, info \in Tracks :
           count.updates < MaxUpdates /\ ReadTrack(w, info)
    \/ \E t \in timers : TimerWake(t)
    \/ \E t \in timers : TimerSend(t)

SpecStation == Init /\ [][NextStation]_vars

\* ------------------------------------------ teardown, with its scheduling
\* Meta and the worker threads, with no track announced.  The threads are
\* OS threads: a worker that can take a step takes it (connect, the reads
\* and thread::sleep return), and the controller thread finishes the method
\* it is in.
NextTeardown ==
    \/ Start
    \/ Pause
    \/ StopSend
    \/ StopDrop
    \/ \E s \in Stations : SetStationSend(s)
    \/ SetStationSwap
    \/ Drop
    \/ DropEnd
    \/ \E w \in Workers : WorkerStep(w)

FairTeardown ==
    /\ WF_vars(StopDrop)
    /\ WF_vars(SetStationSwap)
    /\ WF_vars(DropEnd)
    /\ \A w \in Workers : WF_vars(WorkerStep(w))

SpecTeardown == Init /\ [][NextTeardown]_vars /\ FairTeardown

\* ------------------------------------------------- one session, streaming
\* The state after start() on a new Meta once the worker has connected and
\* read the first message: Running, the session at its first poll.
Streaming(w, paused, history) ==
    [FreshWorker EXCEPT !.pc = "poll", !.attempts = 1, !.beat = TRUE,
                        !.paused = paused,
                        !.held = paused, !.history = history, !.recorded = history]

InitSession ==
    /\ ctl = [state |-> "Running", cur |-> 1, pc |-> "idle",
              station |-> "Jpop", arg |-> "Jpop"]
    /\ chan = [w \in Workers |-> [q |-> <<>>, tx |-> (w = 1)]]
    /\ \E hb \in BOOLEAN :
           workers = [w \in Workers |->
                         IF w = 1 THEN [Streaming(1, FALSE, <<>>) EXCEPT !.hb = hb]
                         ELSE FreshWorker]
    /\ gen = 0
    /\ lag \in Lags
    /\ now = 0
    /\ timers = {}
    /\ out = <<>>
    /\ count = [ops |-> 1, spawned |-> 1, updates |-> 0]
    /\ last = [op |-> "start", was |-> "Stopped"]

\* The session goes on: no Stop, and the connection stays up.
NextSession ==
    \/ Start
    \/ Pause
    \/ PollPause(1)
    \/ PollResume(1)
    \/ SchedNext(1)
    \/ PollEmpty(1)
    \/ \E k \in SkipKinds : ReadSkip(1, k)
    \/ \E info \in Tracks :
           count.updates < MaxSessionUpdates /\ ReadTrack(1, info)
    \/ \E t \in timers : TimerWake(t)
    \/ \E t \in timers : TimerSend(t)
    \/ now < MaxTime /\ Tick
    \/ \E l \in Lags : SetLag(l)

SpecSession == InitSession /\ [][NextSession]_vars

\* ------------------------------------- one session, playing undisturbed
\* The session of SpecSession when no method of Meta is called and lag_ms
\* stays what it was: it only reads, and the clock runs.
NextPlaying ==
    \/ PollEmpty(1)
    \/ \E k \in SkipKinds : ReadSkip(1, k)
    \/ \E info \in Tracks :
           count.updates < MaxSessionUpdates /\ ReadTrack(1, info)
    \/ \E t \in timers : TimerWake(t)
    \/ \E t \in timers : TimerSend(t)
    \/ now < MaxTime /\ Tick

SpecPlaying == InitSession /\ [][NextPlaying]_vars

\* ------------------------------------ the first read and the heartbeats
\* One worker from start() on: its connection attempts, every first read
\* and both outcomes of the heartbeat sends, the sessions without tracks,
\* and stop().
NextHello ==
    \/ Start
    \/ StopSend
    \/ StopDrop
    \/ LoopTop(1)
    \/ OnceTop(1)
    \/ \E ok \in BOOLEAN : Connect(1, ok)
    \/ \E r \in FirstReads, sent \in BOOLEAN : HelloRead(1, r, sent)
    \/ PollStop(1)
    \/ PollResume(1)
    \/ SchedNext(1)
    \/ PollEmpty(1)
    \/ Heartbeat(1)
    \/ \E c \in EndCauses(1) : SessionEnd(1, c)
    \/ \E k \in SkipKinds : ReadSkip(1, k)
    \/ Retry(1)
    \/ Wake(1)

SpecHello == Init /\ [][NextHello]_vars

\* ------------------------------------------------ from one worker to the next
\* The state after start(), a TRACK_UPDATE not yet due that the session of
\* the first worker scheduled, and set_station(Kpop): the first worker is
\* at ws.read() with its Stop queued and its notification asleep, the
\* second has just been spawned.
InitHandover ==
    /\ ctl = [state |-> "Running", cur |-> 2, pc |-> "idle",
              station |-> "Kpop", arg |-> "Kpop"]
    /\ chan = [w \in Workers |->
                  IF w = 1 THEN [q |-> <<"Stop">>, tx |-> FALSE]
                  ELSE IF w = 2 THEN [q |-> <<>>, tx |-> TRUE]
                  ELSE [q |-> <<>>, tx |-> FALSE]]
    /\ \E hb \in BOOLEAN, dur \in {0, 1} :
           LET first == [start |-> 1, dur |-> dur]
           IN  /\ workers = [w \in Workers |->
                      IF w = 1
                      THEN [Streaming(1, FALSE, <<first>>) EXCEPT
                               !.pc = "io", !.hb = hb]
                      ELSE IF w = 2
                      THEN [FreshWorker EXCEPT !.pc = "loop", !.station = "Kpop"]
                      ELSE FreshWorker]
               /\ timers = {schedule_ui_switch(1, first, 0, 1)}
    /\ gen = 1
    /\ lag = 0
    /\ now = 0
    /\ out = <<>>
    /\ count = [ops |-> 2, spawned |-> 2, updates |-> 1]
    /\ last = [op |-> "set_station", was |-> "Running"]

\* Both workers run on, each may read a track, and the controller has one
\* more call.
NextHandover ==
    \/ Start
    \/ Pause
    \/ StopSend
    \/ StopDrop
    \/ Drop
    \/ DropEnd
    \/ \E w \in Workers : WorkerStep(w)
    \/ \E w \in Workers, info \in Tracks :
           count.updates < MaxSessionUpdates /\ ReadTrack(w, info)
    \/ \E t \in timers : TimerWake(t)
    \/ \E t \in timers : TimerSend(t)
    \/ now < MaxTime /\ Tick

SpecHandover == InitHandover /\ [][NextHandover]_vars

\* ----------------------------------------- one session, reading messages
\* What ws.read() gives the session loop as a message: a frame that is text
\* or not; its text decodes as a GatewayEnvelope or not; the envelope's op
\* and t; its d decodes as a GatewaySongPayload or not; the payload's
\* startTime, a time or a string that is no RFC 3339 time, and its
\* song.duration.  A field that is never looked at holds a fixed value.
\* BadTime stands for every startTime that OffsetDateTime::parse rejects.
BadTime == -1
NoText == [text |-> FALSE, json |-> FALSE, op |-> 0, t |-> "none",
           payload |-> FALSE, startTime |-> BadTime, duration |-> None]
Frames ==
    {NoText, [NoText EXCEPT !.text = TRUE]}
    \cup {[NoText EXCEPT !.text = TRUE, !.json = TRUE, !.op = o, !.t = t] :
             o \in {OP_HELLO, OP_DISPATCH, OP_HEARTBEAT_ACK},
             t \in {"TRACK_UPDATE", "NOTIFICATION", "none"}}
    \cup [text : {TRUE}, json : {TRUE},
          op : {OP_HELLO, OP_DISPATCH, OP_HEARTBEAT_ACK},
          t : {"TRACK_UPDATE", "NOTIFICATION", "none"},
          payload : {TRUE}, startTime : {BadTime} \cup (0..MaxTime),
          duration : {None, Some(1)}]

\* parse_rfc3339_system_time: None for what does not parse.
parse_rfc3339_system_time(str) == IF str = BadTime THEN None ELSE Some(str)

\* parse_track_info that puts the epoch where startTime does not parse.
parse_track_info_fabricates(f) ==
    IF ~f.payload THEN None
    ELSE Some([start |-> IF f.startTime = BadTime THEN 0 ELSE f.startTime,
               dur |-> IF f.duration = None THEN 0 ELSE The(f.duration)])

\* parse_track_info: None unless d decodes and startTime parses; a missing
\* duration is 0.
parse_track_info(f) ==
    IF ~f.payload THEN None
    ELSE LET start_time_utc == parse_rfc3339_system_time(f.startTime)
         IN  IF start_time_utc = None THEN None
             ELSE Some([start |-> The(start_time_utc),
                        dur |-> IF f.duration = None THEN 0 ELSE The(f.duration)])

\* The session loop from is_text to the match on (op, t): the track to
\* record if there is one, else why there is none.
on_message(f) ==
    IF ~f.text THEN [track |-> None, why |-> "not text"]
    ELSE IF ~f.json THEN [track |-> None, why |-> "malformed envelope"]
    ELSE IF f.op = OP_HEARTBEAT_ACK THEN [track |-> None, why |-> "heartbeat ack"]
    ELSE IF f.op = OP_DISPATCH /\ f.t = "TRACK_UPDATE"
         THEN LET info == parse_track_info(f)
              IN  [track |-> info,
                   why |-> IF info # None THEN "track"
                           ELSE IF f.payload THEN "bad startTime"
                           ELSE "malformed payload"]
    ELSE [track |-> None, why |-> "other op"]

\* ws.read() gave the message f.
ReadFrame(w, f) ==
    LET m == on_message(f)
    IN  IF m.track = None THEN ReadSkip(w, m.why) ELSE ReadTrack(w, The(m.track))

\* A session as in SpecSession, the clock and lag_ms at rest, the messages
\* read spelled out.
NextFrames ==
    \/ Start
    \/ Pause
    \/ PollPause(1)
    \/ PollResume(1)
    \/ SchedNext(1)
    \/ PollEmpty(1)
    \/ \E f \in Frames :
           /\ on_message(f).track # None => count.updates < MaxUpdates
           /\ ReadFrame(1, f)
    \/ \E t \in timers : TimerWake(t)
    \/ \E t \in timers : TimerSend(t)

SpecFrames == InitSession /\ [][NextFrames]_vars

\* ------------------------------------------- a Resume over any History
PickTracks == [start : 0..MaxPickTime, dur : 0..MaxDur]
Histories == UNION {[1..n -> PickTracks] : n \in 0..MaxHist}
\* TimeMax as a lag: now - lag is representable, start + lag is not for any
\* start after 0.
PickLags == Lags \cup {TimeMax, LagHuge}

\* The state after start(), pause(), start() when the session took the Pause,
\* then recorded the tracks of some History while paused, and is about to
\* take the Resume.
InitResume ==
    /\ ctl = [state |-> "Running", cur |-> 1, pc |-> "idle",
              station |-> "Jpop", arg |-> "Jpop"]
    /\ chan = [w \in Workers |->
                  IF w = 1 THEN [q |-> <<"Resume">>, tx |-> TRUE]
                  ELSE [q |-> <<>>, tx |-> FALSE]]
    /\ \E h \in Histories :
           /\ workers = [w \in Workers |->
                            IF w = 1 THEN Streaming(1, TRUE, h) ELSE FreshWorker]
           /\ count = [ops |-> 3, spawned |-> 1, updates |-> Len(h)]
    /\ gen = 1
    /\ lag \in PickLags
    /\ now \in 0..MaxPickTime
    /\ timers = {}
    /\ out = <<>>
    /\ last = [op |-> "start", was |-> "Running"]

NextResume ==
    \/ PollResume(1)
    \/ SchedNext(1)
    \/ \E t \in timers : TimerWake(t)
    \/ \E t \in timers : TimerSend(t)
    \/ now < MaxPickTime /\ Tick

SpecResume == InitResume /\ [][NextResume]_vars

\* --------------------------------------------- one long paused session
\* The k-th track the gateway announces in SpecHistory.
Arrival(k) == [start |-> 0, dur |-> k]

\* The state after start() and pause() when the session took the Pause.
InitHistory ==
    /\ ctl = [state |-> "Running", cur |-> 1, pc |-> "idle",
              station |-> "Jpop", arg |-> "Jpop"]
    /\ chan = [w \in Workers |-> [q |-> <<>>, tx |-> (w = 1)]]
    /\ workers = [w \in Workers |->
                     IF w = 1 THEN [Streaming(1, TRUE, <<>>) EXCEPT !.pc = "io"]
                     ELSE FreshWorker]
    /\ gen = 1
    /\ lag = 0
    /\ now = 0
    /\ timers = {}
    /\ out = <<>>
    /\ count = [ops |-> 2, spawned |-> 1, updates |-> 0]
    /\ last = [op |-> "pause", was |-> "Running"]

NextHistory ==
    \/ count.updates < MaxRecorded /\ ReadTrack(1, Arrival(count.updates + 1))
    \/ \E k \in SkipKinds : ReadSkip(1, k)
    \/ PollEmpty(1)
    \/ \E l \in Lags : SetLag(l)

SpecHistory == InitHistory /\ [][NextHistory]_vars

\* ------------------------------------------------------------ the claims
Sent == {out[i] : i \in 1..Len(out)}
\* What a step adds to the consumer channel.
NewlySent == {out'[i] : i \in (Len(out) + 1)..Len(out')}
\* The timers a step spawns.
NewTimers == {t \in timers' \ timers : t.st = "sleep"}

\* C1: a notification scheduled with captured value g reaches the consumer
\* only if the thread loaded g from the counter when it woke; g is the value
\* of the counter at scheduling and the counter never decreases, so an
\* increment between scheduling and wake-up keeps the notification from
\* being sent.
C1_StaleSwitchNeverSent ==
    /\ [](/\ \A t \in timers : t.st = "send" => t.woke = t.id
          /\ \A e \in Sent : e.src = "timer" => e.woke = e.id)
    /\ [][/\ gen' >= gen
          /\ \A t \in NewTimers : t.id = gen']_vars

\* A later notification was sent while an invalidated one, due to wake, is
\* still asleep.
C1_Witness ==
    \E t \in timers :
        /\ t.st = "sleep" /\ t.id < gen /\ Awake(t)
        /\ \E e \in Sent : e.src = "timer" /\ e.id > t.id

\* C2: from the moment the session has taken a Pause until a poll of that
\* worker takes a Resume, nothing of that worker reaches the consumer.
C2_PausedEmitsNothing ==
    [][\A w \in Workers :
           workers[w].held /\ workers'[w].held
               => \A e \in NewlySent : e.w # w]_vars

\* C2, its cause that needs no race: while the Pause is in force the worker
\* spawns no timer either.  (A session after a reconnect starts unpaused.)
C2_PausedSchedulesNothing ==
    [][\A w \in Workers :
           workers[w].held /\ workers'[w].held
               => \A t \in NewTimers : t.w # w]_vars

\* C4: a worker whose session loop received Stop makes no further
\* connection attempt.
C4_StopMeansNoRetry ==
    \A w \in Workers : workers[w].stopSeen => ~workers[w].retried

\* C7: after a TRACK_UPDATE taken by an unpaused session with start + lag not
\* in the future, and until the session takes another TRACK_UPDATE or a
\* Resume, the only thing sent to the consumer is that track's notification,
\* and it is sent at most once.
C7_OnlyTheDueTrack ==
    [][\A w \in Workers :
           LET d == workers[w].due
           IN  d # 0 /\ workers'[w].due = d
                   => \A e \in NewlySent :
                          /\ e.src = "timer" /\ e.id = d
                          /\ \A f \in Sent : f.id # d]_vars

\* A step of worker w from pc value a to pc value b.
Moves(w, a, b) == workers[w].pc = a /\ workers'[w].pc = b

\* C3 as stated: every Resume arms exactly one scheduled switch.
C3_ArmsExactlyOne ==
    [][\A w \in Workers :
           Moves(w, "resync", "io") => Cardinality(NewTimers) = 1]_vars

\* C3, amended: a session that takes Resume clears paused and sends
\* pick_track_for_playback(history, lag) if there is one; then, with no
\* message read in between, it arms at most one switch: one for an entry of
\* least start_time among those after playback_now = now - lag when there is
\* such an entry and now - lag is representable, and none otherwise.
C3_ResumeResyncs ==
    [][\A w \in Workers :
           LET h == workers[w].history
               pn == now - workers[w].lagv
               fut == {i \in 1..Len(h) : h[i].start > pn}
           IN  /\ Moves(w, "poll", "resync") =>
                     /\ ~workers'[w].paused
                     /\ {e.track : e \in NewlySent} = pick_track_for_playback(h, lag, now)
                     /\ Len(out') <= Len(out) + 1
                     /\ NewTimers = {}
               /\ workers[w].pc = "resync" => workers'[w].history = h
               /\ Moves(w, "resync", "io") =>
                     /\ NewlySent = {}
                     /\ Cardinality(NewTimers) <= 1
                     /\ fut # {} /\ pn >= TimeMin =>
                            \E t \in NewTimers : \E i \in fut :
                                /\ t.track = h[i]
                                /\ \A j \in fut : h[i].start <= h[j].start
                                /\ t.id = gen'
                     /\ fut = {} \/ pn < TimeMin => NewTimers = {}]_vars

\* A Resume sent the pick and armed a switch.
C3_Witness ==
    \E w \in Workers :
        /\ workers[w].pc = "io" /\ workers[w].armed = 1
        /\ \E e \in Sent : e.src = "resume" /\ e.w = w
        /\ \E t \in timers : t.w = w /\ t.id = gen /\ t.st = "sleep"

\* C5: History never holds more than 32 entries, and it holds the tracks
\* recorded in the session, the last 32 of them when there are more, in the
\* order they arrived.
C5_HistoryBounded ==
    \A w \in Workers :
        LET h == workers[w].history
            r == workers[w].recorded
            n == Len(r)
        IN  /\ Len(h) <= 32
            /\ h = SubSeq(r, IF n > 32 THEN n - 31 ELSE 1, n)

\* More than 32 tracks were recorded in one session.
C5_Witness ==
    \E w \in Workers :
        Len(workers[w].recorded) > 32 /\ Len(workers[w].history) = 32

\* Two entries of h have windows [start, start + dur) that share a point.
Overlap(a, b) ==
    a.dur > 0 /\ b.dur > 0 /\ a.start < b.start + b.dur /\ b.start < a.start + a.dur
NonOverlapping(h) ==
    \A i, j \in 1..Len(h) : i # j => ~Overlap(h[i], h[j])

\* C6: over a History without overlapping windows, what a Resume sends as
\* the pick is the entry with a duration whose window holds playback_now =
\* now - lag if there is one, else the latest recorded entry started at or
\* before playback_now, else nothing.
C6_PickFollowsRule ==
    [][\A w \in Workers :
           LET h == workers[w].history
               pn == now - lag
               win == {i \in 1..Len(h) :
                          h[i].dur > 0 /\ h[i].start <= pn /\ pn < h[i].start + h[i].dur}
               before == {i \in 1..Len(h) : h[i].start <= pn}
           IN  Moves(w, "poll", "resync") /\ NonOverlapping(h) =>
                   /\ Len(out') <= Len(out) + 1
                   /\ {e.track : e \in NewlySent} =
                          IF win # {} THEN {h[i] : i \in win}
                          ELSE IF before # {} THEN {h[SetMax(before)]}
                          ELSE {}]_vars

\* A Resume at clock 0 with lag 0 sent an entry for its window although a
\* later entry had started too.
C6_Witness ==
    \E w \in Workers :
        LET h == workers[w].history
        IN  /\ workers[w].pc = "resync" /\ now = 0 /\ workers[w].lagv = 0
            /\ NonOverlapping(h)
            /\ Len(h) >= 2 /\ h[Len(h)].start <= 0
            /\ \E e \in Sent : e.src = "resume" /\ e.track.dur > 0
                                 /\ e.track # h[Len(h)]

\* The step is a call of the Meta API op on a controller in state was.
IsCall(op, was) ==
    last' = [op |-> op, was |-> was] /\ count'.ops = count.ops + 1
Spawned == {w \in Workers : workers[w].pc = "none" /\ workers'[w].pc # "none"}
SentTo(w, m) == chan' = [chan EXCEPT ![w].q = Append(@, m)]

\* start() on Stopped: one new worker on a new channel, the controller
\* Running with the sender of that channel, nothing sent.
StartsOneWorker ==
    /\ ctl'.state = "Running"
    /\ Spawned = {ctl'.cur}
    /\ workers'[ctl'.cur].pc = "loop"
    /\ chan'[ctl'.cur] = [q |-> <<>>, tx |-> TRUE]
    /\ \A w \in Workers \ Spawned : workers'[w] = workers[w] /\ chan'[w] = chan[w]

\* C8 as stated: start() on Running sends nothing.
C8_StartOnRunningSendsNothing ==
    [][/\ IsCall("start", "Running") => UNCHANGED <<ctl, chan, workers>>
       /\ IsCall("start", "Stopped") => StartsOneWorker]_vars

\* C8, amended: start() on Running spawns no worker and leaves the
\* controller state unchanged, but sends one Resume to the current worker; on
\* Stopped it spawns exactly one worker and moves to Running.
C8_StartResumesOrSpawns ==
    [][/\ IsCall("start", "Running") =>
              /\ UNCHANGED <<ctl, workers>>
              /\ SentTo(ctl.cur, "Resume")
       /\ IsCall("start", "Stopped") => StartsOneWorker]_vars

\* start() was called on Running, after a start() on Stopped.
C8_Witness ==
    /\ last = [op |-> "start", was |-> "Running"]
    /\ ctl.state = "Running" /\ count.spawned = 1
    /\ chan[ctl.cur].q # <<>>
    /\ chan[ctl.cur].q[Len(chan[ctl.cur].q)] = "Resume"

\* C9 as stated: on Stopped the pause intent and the resume intent, which is
\* start(), change nothing; on Running each sends its one message.
C9_IntentsOnStoppedAreNoops ==
    [][/\ IsCall("pause", "Stopped") \/ IsCall("start", "Stopped") =>
              UNCHANGED <<ctl, chan, workers>>
       /\ IsCall("pause", "Running") =>
              UNCHANGED <<ctl, workers>> /\ SentTo(ctl.cur, "Pause")
       /\ IsCall("start", "Running") =>
              UNCHANGED <<ctl, workers>> /\ SentTo(ctl.cur, "Resume")]_vars

\* C9, amended: on Stopped pause() changes nothing, while the resume intent,
\* which has no entry point but start(), spawns a worker and moves to
\* Running; on Running pause() and start() each send exactly one Pause or
\* Resume to the current worker and change nothing else.
C9_PauseAndResumeIntents ==
    [][/\ IsCall("pause", "Stopped") =>
              UNCHANGED <<ctl, chan, workers, gen, timers, out>>
       /\ IsCall("start", "Stopped") =>
              ctl'.state = "Running" /\ count'.spawned = count.spawned + 1
       /\ IsCall("pause", "Running") =>
              /\ UNCHANGED <<ctl, workers, gen, timers, out>>
              /\ SentTo(ctl.cur, "Pause")
       /\ IsCall("start", "Running") =>
              /\ UNCHANGED <<ctl, workers, gen, timers, out>>
              /\ SentTo(ctl.cur, "Resume")]_vars

\* pause() was called on a controller that was stopped after running.
C9_Witness ==
    /\ last = [op |-> "pause", was |-> "Stopped"]
    /\ ctl.state = "Stopped" /\ count.spawned = 1

\* C10: stop() on Running sends exactly one Stop to the current worker and
\* then sets Stopped; on Stopped it changes nothing: once stop() has
\* returned the controller is Stopped, and a second stop() in a row leaves
\* the controller, the channels and the workers as the first left them.
C10_StopIsIdempotent ==
    /\ [](last.op = "stop" /\ ctl.pc = "idle" => ctl.state = "Stopped")
    /\ [][/\ IsCall("stop", "Running") =>
                 /\ SentTo(ctl.cur, "Stop")
                 /\ ctl' = [ctl EXCEPT !.pc = "stop_sent"]
                 /\ UNCHANGED <<workers, gen, timers, out>>
          /\ ctl.pc = "stop_sent" /\ ctl' # ctl =>
                 /\ ctl' = [ctl EXCEPT !.pc = "idle", !.state = "Stopped"]
                 /\ \A w \in Workers : chan'[w].q = chan[w].q
                 /\ UNCHANGED <<workers, gen, timers, out>>
          /\ IsCall("stop", "Stopped") =>
                 UNCHANGED <<ctl, chan, workers, gen, timers, out>>]_vars

\* start(), stop(), stop(): the second stop() found Stopped.
C10_Witness ==
    /\ last = [op |-> "stop", was |-> "Stopped"]
    /\ count.spawned = 1 /\ count.ops = 3
    /\ ctl.state = "Stopped"

\* C11: set_station on Running sends Stop to the current worker and then, in
\* its second step, drops that worker's Sender, stores the new station and
\* is Running with one new worker on a new channel, bound to the new
\* station; on Stopped it only stores the station: no worker, no message,
\* still Stopped.
C11_SetStationRestarts ==
    [][/\ IsCall("set_station", "Running") =>
              /\ SentTo(ctl.cur, "Stop")
              /\ ctl' = [ctl EXCEPT !.pc = "swap_sent", !.arg = ctl'.arg]
              /\ UNCHANGED <<workers, gen, timers, out>>
       /\ ctl.pc = "swap_sent" /\ ctl' # ctl =>
              /\ ctl' = [ctl EXCEPT !.state = "Running", !.pc = "idle",
                                    !.station = ctl.arg, !.cur = ctl'.cur]
              /\ ctl'.cur # ctl.cur
              /\ Spawned = {ctl'.cur}
              /\ workers'[ctl'.cur].pc = "loop"
              /\ workers'[ctl'.cur].station = ctl.arg
              /\ chan'[ctl'.cur] = [q |-> <<>>, tx |-> TRUE]
              /\ chan'[ctl.cur] = [chan[ctl.cur] EXCEPT !.tx = FALSE]
              /\ \A w \in Workers \ {ctl.cur, ctl'.cur} :
                     workers'[w] = workers[w] /\ chan'[w] = chan[w]
              /\ workers'[ctl.cur] = workers[ctl.cur]
              /\ UNCHANGED <<gen, timers, out>>
       /\ IsCall("set_station", "Stopped") =>
              /\ ctl' = [ctl EXCEPT !.station = ctl'.arg, !.arg = ctl'.arg]
              /\ ctl'.state = "Stopped"
              /\ UNCHANGED <<chan, workers, gen, timers, out>>]_vars

\* set_station(Kpop) on a controller running for Jpop has returned: the
\* first worker, for Jpop, was sent Stop, and the second is bound to Kpop.
C11_Witness ==
    /\ last = [op |-> "set_station", was |-> "Running"]
    /\ ctl.pc = "idle" /\ ctl.state = "Running" /\ ctl.station = "Kpop"
    /\ ctl.cur = 2 /\ workers[2].pc # "none" /\ workers[2].station = "Kpop"
    /\ workers[1].station = "Jpop" /\ ~chan[1].tx /\ chan[2].tx

\* C12: a worker whose controller has begun stop_inner on it (from stop(),
\* from set_station or from Drop) terminates, wherever it is at that moment.
C12_StoppedWorkerTerminates ==
    \A w \in Workers :
        (ctl.cur = w /\ ctl.pc \in {"stop_sent", "swap_sent", "drop_sent"})
            ~> (workers[w].pc = "done")

\* The Meta was dropped while its worker was in a session; the worker took
\* the Stop there and has terminated.
C12_Witness ==
    /\ last = [op |-> "drop", was |-> "Running"]
    /\ ctl.pc = "gone"
    /\ workers[ctl.cur].stopSeen /\ workers[ctl.cur].pc = "done"

DecodedTrackUpdate(f) ==
    /\ f.text /\ f.json
    /\ f.op = 1 /\ f.t = "TRACK_UPDATE"
    /\ f.payload /\ f.startTime >= 0

\* C14: reading a message that is not a decoded TRACK_UPDATE dispatch
\* leaves History, paused, the counter and the pending notifications as they
\* are and sends nothing; the session goes on to its next poll.  Reading one
\* that is records a track with the start it names.
C14_OtherMessagesChangeNothing ==
    [][\A w \in Workers : \A f \in Frames :
           ReadFrame(w, f) =>
               IF DecodedTrackUpdate(f)
               THEN /\ workers'[w].history # workers[w].history
                    /\ workers'[w].history[Len(workers'[w].history)].start = f.startTime
               ELSE /\ workers'[w].history = workers[w].history
                    /\ workers'[w].paused = workers[w].paused
                    /\ UNCHANGED <<gen, timers, out, chan, ctl>>
                    /\ workers'[w].pc = "poll"]_vars

\* The session holds a track and its notification, still asleep, was then
\* paused, and has since read a message that was no track update (the one
\* track update read so far came before the Pause).
C14_Witness ==
    /\ workers[1].pc = "poll" /\ workers[1].paused
    /\ Len(workers[1].history) = 1 /\ count.updates = 1
    /\ \E t \in timers : t.st = "sleep" /\ t.w = 1 /\ t.track = workers[1].history[1]

\* C15, the part about now - lag: when it is not representable the Resume
\* sends no pick, spawns no timer and leaves the counter where its own
\* increment put it.
C15_UnderflowSchedulesNothing ==
    [][\A w \in Workers :
           /\ Moves(w, "poll", "resync") /\ now - lag < TimeMin =>
                  NewlySent = {} /\ NewTimers = {}
           /\ Moves(w, "resync", "io") /\ now - workers[w].lagv < TimeMin =>
                  NewlySent = {} /\ NewTimers = {} /\ gen' = gen]_vars

\* C15: overflowing time arithmetic gives no emission and no schedule: a
\* notification whose start + lag is not representable is never sent to the
\* consumer, and a Resume whose now - lag is not representable sends
\* nothing, spawns nothing and does not touch the counter in
\* schedule_next_from_history.
C15_OverflowNeverEmits ==
    [][/\ \A t \in timers :
              t.target = None =>
                  \A e \in NewlySent : ~(e.src = "timer" /\ e.id = t.id)
       /\ \A w \in Workers :
              /\ Moves(w, "poll", "resync") /\ now - lag < TimeMin =>
                     NewlySent = {} /\ NewTimers = {}
              /\ Moves(w, "resync", "io") /\ now - workers[w].lagv < TimeMin =>
                     NewlySent = {} /\ NewTimers = {} /\ gen' = gen]_vars

\* The next step of worker w can spawn a notification thread or send to the
\* consumer: it is about to read in an unpaused session, or about to take a
\* Resume, or between the two halves of one.
AbleToNotify(w) ==
    \/ workers[w].pc = "io" /\ ~workers[w].paused
    \/ workers[w].pc = "poll" /\ try_recv(chan[w]) = "Resume"
    \/ workers[w].pc = "resync"

\* C16: at most one worker of the controller is alive and able to schedule
\* or deliver notifications.
C16_OneWorkerAtATime ==
    Cardinality({w \in Workers : AbleToNotify(w)}) <= 1

\* C17: the generation check and the send are one step for the session
\* thread: whenever a notification is sent to the consumer the counter
\* equals the value the notification captured, and no notification is sent
\* twice.
C17_CheckAndSendAtomic ==
    [][\A e \in NewlySent :
           e.src = "timer" =>
               /\ e.id = gen
               /\ \A f \in Sent : ~(f.src = "timer" /\ f.id = e.id)]_vars

\* The messages queued on the channel of worker w.
Queued(w) == {chan[w].q[i] : i \in 1..Len(chan[w].q)}

\* C18: a session that polls a channel holding a Stop goes to Closed in that
\* poll, whatever Pause or Resume is queued with it: it leaves the session
\* loop without sending to the consumer and without spawning a
\* notification thread.
C18_StopTakesPriority ==
    [][\A w \in Workers :
           /\ workers[w].pc = "poll"
           /\ "Stop" \in Queued(w)
           /\ workers'[w] # workers[w]
           => /\ workers'[w].pc = "retry"
              /\ NewlySent = {}
              /\ NewTimers = {}]_vars

\* C19: every step in which a worker takes a Pause, Resume or Stop off its
\* channel, at any of its try_recv calls, and every step in which an
\* unpaused session records a track, increments the counter (and so
\* invalidates every notification scheduled before).
C19_EveryEventBumpsCounter ==
    [][\A w \in Workers :
           /\ Len(chan'[w].q) < Len(chan[w].q) => gen' > gen
           /\ /\ ~workers[w].paused
              /\ Len(workers'[w].recorded) = Len(workers[w].recorded) + 1
              => gen' > gen]_vars

\* The notification threads that hold the current value of the counter.
Current == {t \in timers : t.id = gen}

\* C20: at most one outstanding notification holds a captured value equal
\* to the counter; no outstanding notification holds a larger one and no two
\* hold the same, so the one that holds it is the last one scheduled; a step
\* schedules at most one notification, under the new value of the counter;
\* and the counter never decreases.  This with notifications of an earlier
\* session or of the previous worker outstanding.
C20_LastScheduledWins ==
    /\ [](/\ Cardinality(Current) <= 1
          /\ \A t \in timers : t.id <= gen
          /\ \A t, u \in timers : t.id = u.id => t = u)
    /\ [][/\ gen' >= gen
          /\ Cardinality(NewTimers) <= 1
          /\ \A t \in NewTimers : t.id = gen' /\ gen' > gen]_vars

\* The second worker has scheduled a notification that holds the current
\* value while the notification of the first worker is still asleep.
C20_Witness ==
    \E t, u \in timers :
        /\ t.w = 1 /\ t.st = "sleep" /\ t.id < gen
        /\ u.w = 2 /\ u.st = "sleep" /\ u.id = gen
        /\ Current = {u}

\* The track a decoded TRACK_UPDATE names: its startTime, and its duration
\* or 0.
TrackOf(f) ==
    [start |-> f.startTime, dur |-> IF f.duration = {} THEN 0 ELSE The(f.duration)]

\* C21: reading a decoded TRACK_UPDATE appends its track to History (the
\* oldest entry dropped first when there are 32) and sends nothing; in an
\* unpaused session it adds one to the counter and spawns exactly one
\* notification, for that track, holding the new value; in a paused session
\* it leaves the counter and the notifications as they are.
C21_TrackUpdateRecordsAndSchedules ==
    [][\A w \in Workers : \A f \in Frames :
           DecodedTrackUpdate(f) /\ ReadFrame(w, f) =>
               LET h == workers[w].history
               IN  /\ workers'[w].history =
                          Append(IF Len(h) = 32 THEN Tail(h) ELSE h, TrackOf(f))
                   /\ out' = out
                   /\ IF workers[w].paused
                      THEN gen' = gen /\ timers' = timers
                      ELSE /\ gen' = gen + 1
                           /\ \E t \in timers' :
                                  /\ timers' \ timers = {t} /\ timers \subseteq timers'
                                  /\ t.track = TrackOf(f) /\ t.id = gen' /\ t.w = w
                                  /\ t.st = "sleep"]_vars

\* A paused session has recorded a track: only the Pause has moved the
\* counter, and nothing is scheduled.
C21_Witness ==
    /\ workers[1].paused /\ Len(workers[1].history) = 1
    /\ count.updates = 1 /\ gen = 1 /\ timers = {} /\ out = <<>>

\* C22: in an unpaused session with a constant lag and no Pause, Resume or
\* Stop every recorded track is delivered once now >= start_time + lag,
\* whatever track updates follow it: the one notification thread of a track
\* sends no earlier than that, and it never ends without sending.
C22_EveryTrackIsDelivered ==
    [][/\ \A e \in NewlySent : now >= e.track.start + lag
       /\ \A t \in timers :
              (\A u \in timers' : u.id # t.id) =>
                  \E e \in NewlySent : e.src = "timer" /\ e.id = t.id
                                           /\ e.track = t.track]_vars

\* Worker w is in a session: between the first read and the return of
\* run_once.
InSession(w) == workers[w].pc \in {"poll", "resync", "io"}

\* C23: in a session whose first read gave no hello with a heartbeat
\* interval no heartbeat frame is ever sent.
C23_NoIntervalNoHeartbeat ==
    \A w \in Workers : InSession(w) /\ ~workers[w].hb => ~workers[w].beat


\* A first message that does not decode as a hello: a text frame whose
\* envelope is malformed, or op 0 whose heartbeat field is missing or not an
\* integer.
Undecodable(r) ==
    r.res = "msg" /\ r.text /\ (~r.json \/ (r.op = OP_HELLO /\ ~r.heartbeat))

\* C24: a first message that cannot be decoded as a hello does not end the
\* session with an error; the session goes on to the streaming loop with no
\* heartbeat interval.
C24_UndecodableHelloProceeds ==
    [][\A w \in Workers, r \in FirstReads, sent \in BOOLEAN :
           Undecodable(r) /\ HelloRead(w, r, sent) =>
               workers'[w].pc = "poll" /\ ~workers'[w].hb]_vars

\* C25: a read that times out never ends a session, neither the read that
\* awaits the hello nor a read of the streaming loop: the worker polls the
\* control channel next.
C25_TimeoutNeverEndsSession ==
    [][\A w \in Workers :
           /\ (\E sent \in BOOLEAN :
                   HelloRead(w, [NoFirst EXCEPT !.res = "timeout"], sent))
                  => workers'[w].pc = "poll"
           /\ ReadSkip(w, "timeout") => workers'[w].pc = "poll"]_vars

\* C26: a heartbeat send that fails ends the session, the send right after
\* the first read included: no session goes on after it.
C26_FailedHeartbeatEndsSession ==
    \A w \in Workers : workers[w].beatErr => ~InSession(w)


\* C27: between the return of run_once (normal close or error) and the next
\* connection attempt the worker always sleeps: 5 seconds, or 1 second when
\* the channel held a message other than Stop.  No step leads from the end
\* of a session back towards connect except through that sleep.
C27_AlwaysSleepsBeforeReconnect ==
    [][\A w \in Workers :
           /\ workers[w].pc = "retry" /\ workers'[w].pc \notin {"retry", "done"}
                  => /\ workers'[w].pc = "sleep"
                     /\ workers'[w].waited =
                            IF try_recv(chan[w]) = "Empty" THEN RetryDelay
                            ELSE ControlDelay
           /\ workers[w].pc = "connect" /\ workers'[w].pc # "connect"
                  /\ workers[w].attempts >= 1
                  => workers[w].waited \in {RetryDelay, ControlDelay}]_vars

\* A worker whose session ended, which found a message other than Stop, slept
\* one second and is about to connect again.
C27_Witness ==
    \E w \in Workers :
        /\ workers[w].pc = "connect"
        /\ workers[w].attempts >= 1
        /\ workers[w].waited = ControlDelay


\* C28: wherever the worker polls the control channel, a disconnected
\* channel has the effect of a Stop: the same next position and the same
\* change of the generation counter at the poll itself, and, once run_once
\* has returned because of either, run_meta_loop returns without a retry.
C28_DisconnectedSameAsStop ==
    [][\A w \in Workers :
           /\ workers[w].pc \in {"loop", "once", "poll"}
                  /\ Stopping(try_recv(chan[w])) /\ workers'[w].pc # workers[w].pc
                  => /\ workers'[w].pc =
                            IF workers[w].pc = "loop" THEN "done" ELSE "retry"
                     /\ gen' = IF workers[w].pc = "poll" THEN gen + 1 ELSE gen
           /\ workers[w].pc = "retry" /\ workers[w].why \in {"Stop", "Disconnected"}
                  /\ workers'[w].pc # "retry"
                  => workers'[w].pc = "done"]_vars


\* The tracks of worker w's History, and those it read in this session.
InHistory(w) == {workers[w].history[i] : i \in 1..Len(workers[w].history)}
ReadThisSession(w) == {workers[w].recorded[i] : i \in 1..Len(workers[w].recorded)}

\* C29: a session starts with an empty History, and History only ever holds
\* tracks read in the current session; a Resume emits and schedules only
\* tracks of that History, so none from before a reconnect, and with an
\* empty History it emits nothing and schedules nothing.
C29_HistoryDoesNotSurviveReconnect ==
    [][\A w \in Workers :
           /\ InHistory(w) \subseteq ReadThisSession(w)
           /\ workers[w].pc = "hello" /\ workers'[w].pc = "poll"
                  => workers'[w].history = <<>> /\ workers'[w].recorded = <<>>
           /\ workers[w].pc = "poll" /\ workers'[w].pc = "resync"
                  => /\ \A e \in NewlySent : e.track \in ReadThisSession(w)
                     /\ workers[w].history = <<>> => out' = out
           /\ workers[w].pc = "resync" /\ workers'[w].pc = "io"
                  => /\ \A t \in NewTimers : t.track \in ReadThisSession(w)
                     /\ workers[w].history = <<>> => timers' = timers]_vars

\* The only worker ever started read a track in an earlier session and is in
\* a later one, where it has read none and has handled a Resume, which
\* scheduled nothing.
C29_Witness ==
    \E w \in Workers :
        /\ count.spawned = 1 /\ count.updates = 1
        /\ workers[w].attempts = 2
        /\ workers[w].pc = "io"
        /\ workers[w].recorded = <<>> /\ workers[w].history = <<>>
        /\ workers[w].armed = 0


\* C30: the fire time of a scheduled switch is fixed when it is scheduled,
\* from the lag loaded then (at the track's arrival, or by the Resume that
\* schedules it).  A later change of lag_ms does not move, cancel or
\* duplicate a pending notification: the step that changes it leaves the
\* notifications and the consumer channel alone, no step changes the target
\* or the track of a pending notification or makes a second one of it, and
\* its thread sleeps until the target it was given.
C30_FireTimeFixedAtSchedule ==
    [][/\ \A t \in NewTimers :
              t.target = checked_add(t.track.start,
                                     IF workers[t.w].pc = "resync"
                                     THEN workers[t.w].lagv ELSE lag)
       /\ \A w \in Workers :
              workers[w].pc = "poll" /\ workers'[w].pc = "resync"
                  => workers'[w].lagv = lag
       /\ lag' # lag => timers' = timers /\ out' = out
       /\ \A t \in timers :
              /\ \A u \in timers' :
                     u.id = t.id => u.target = t.target /\ u.track = t.track
              /\ Cardinality({u \in timers' : u.id = t.id}) <= 1
              /\ t.st = "sleep" /\ t \notin timers'
                     => t.target = None \/ The(t.target) <= now]_vars

\* A notification sleeps towards a target that is not its track's start plus
\* the lag_ms of the moment: lag_ms changed after it was scheduled.
C30_Witness ==
    \E t \in timers :
        /\ t.st = "sleep"
        /\ t.target # None
        /\ The(t.target) # t.track.start + lag


\* C31: the pick and the next-switch selection of one Resume split History
\* between them: every entry has started at the playback_now of the pick
\* (start <= playback_now) or lies after the playback_now that
\* schedule_next_from_history computes (start > playback_now), whatever the
\* clock did between the two.
C31_ResumeSplitsHistory ==
    [][\A w \in Workers :
           Moves(w, "resync", "io") /\ workers[w].pn # None
               => \A i \in 1..Len(workers[w].history) :
                      \/ workers[w].history[i].start <= The(workers[w].pn)
                      \/ workers[w].history[i].start > now - workers[w].lagv]_vars


\* C32: after set_station on a Running controller, once a notification of
\* the new worker has reached the consumer, none of the old worker reaches
\* it any more.  Workers are numbered in the order start_inner spawned them.
C32_OldWorkerSilentAfterNew ==
    [][\A e \in Sent, f \in NewlySent : f.w >= e.w]_vars

====
